---- MODULE Spec2Model ----
(***************************************************************************)
(* Model of the Zookeeper action commands of vtctl                          *)
(* (go/cmd/vtctl/plugin_zktopo.go): PurgeActions, StaleActions,            *)
(* PruneActionLogs and ListShardActions, run against a coordination store  *)
(* that other actors write to and that may fail.                           *)
(*                                                                         *)
(* The store is a map from an action path to the set of child nodes under  *)
(* it.  A child's name is a number; its name order is the order of         *)
(* sort.Strings.  A node's path is the pair <<path, child>>, ordered as    *)
(* the joined string is: by path, then by child.                           *)
(***************************************************************************)
EXTENDS Integers, Sequences, FiniteSets, TLC

\* Bounds of the model.
NumPaths == 2
MaxChild == 2
MaxKeep == 2

\* The action paths the batch commands are given, which are also the action
\* paths of the shard's tablets.
Path == 1..NumPaths

\* zkts.ShardActionPath(keyspace, shard): the shard's own action path.
ShardPath == 0

\* The replicas of the shard in the scenario of three replicas, by the
\* action path of their tablet.
NumReplicas == 3
Replica == 1..NumReplicas

AllPath == {ShardPath} \cup Path \cup Replica
Child == 1..MaxChild

VARIABLES
    store,      \* [AllPath -> SUBSET Child]: the children present under each path
    store0,     \* the store as it was when the current call started
    op,         \* the command being run: "none", "purge", "stale", "prune", "list"
    result,     \* "idle", "running", "ok" (returned nil), "error" (returned an error)
    paths,      \* the resolved paths of the call (zkActionPaths / zkPaths / paths);
                \* for "list", the action paths of tabletAliases
    purge,      \* StaleActions' -purge flag
    keepCount,  \* PruneActionLogs' -keep-count flag
    idx,        \* the caller's position in its "for ... range paths" loop
    wpc,        \* [Path -> pc of the worker for that path]
    wg,         \* the WaitGroup counter
    errCount,   \* the AtomicInt32 failure counter
    out,        \* the lines printed on standard output, as node paths
    failed,     \* the paths whose worker met an error
    purgeRan,   \* the paths on which zkts.PurgeActions was called
    pruned,     \* [Path -> count logged by relog.Debug, or -1]
    again,      \* the call re-invokes the previous PurgeActions with the same arguments
    prevOk,     \* the previous invocation returned nil
    lpc,        \* listActionsByShard's position: "none", "shard", "discover", "tablets"
    ga,         \* [AllPath -> the getActions call on that path]
    actionMap,  \* listActionsByShard's actionMap, as its set of keys
    zkts,       \* the topology server is a *zktopo.ZkTopologyServer
    storeFails, \* the store answers some calls with an error
    gaMu,       \* [AllPath -> the goroutines of getActions on that path that are
                \* between mu.Lock() and mu.Unlock()]
    nodesRead,  \* [AllPath -> [Child -> the slice that goroutine's append read]]
    listMu      \* the goroutines f of listActionsByShard that are between
                \* mu.Lock() and mu.Unlock()

batchVars == <<op, result, paths, purge, keepCount, idx, wpc, wg, errCount,
               out, failed, purgeRan, pruned>>
listVars == <<lpc, ga, actionMap>>
histVars == <<again, prevOk>>
lockVars == <<gaMu, nodesRead, listMu>>
envVars == <<zkts, storeFails>>
vars == <<store, store0, batchVars, histVars, listVars, envVars, lockVars>>

(***************************************************************************)
(* Pure helpers.                                                           *)
(***************************************************************************)
Range(s) == {s[i] : i \in 1..Len(s)}

Min(a, b) == IF a < b THEN a ELSE b

\* sort.Strings over a set of child names: the ascending sequence.
RECURSIVE SortStrings(_)
SortStrings(S) ==
    IF S = {} THEN <<>>
    ELSE LET m == CHOOSE x \in S : \A y \in S : x <= y
         IN <<m>> \o SortStrings(S \ {m})

\* The sequences of distinct paths, of every length: the possible results of
\* resolveWildcards.
PathSeqs ==
    {s \in UNION {[1..n -> Path] : n \in 0..NumPaths} :
        \A i, j \in 1..Len(s) : i # j => s[i] # s[j]}

\* The orders in which replica discovery may give the three replicas.
ReplicaSeqs ==
    {s \in [1..NumReplicas -> Replica] :
        \A i, j \in 1..NumReplicas : i # j => s[i] # s[j]}

\* The payload stored in a node: a finished action, a running action older
\* than max-staleness, a payload that is no JSON, a running action younger
\* than max-staleness.  The table gives neighbouring paths different mixes:
\* path 1 holds a finished and a stale action, path 2 a stale action and a
\* malformed payload, and so on.
Payloads == <<"done", "running_old", "bad", "running_new">>
Payload(p, c) == Payloads[((p + c - 2) % Len(Payloads)) + 1]

\* tm.ActionNodeFromJson succeeds: the payload is JSON.  "" is the data of a
\* node that was not found.
Decodes(data) == data \notin {"bad", ""}

\* tm.ActionNodeCanBePurged: a decoded node whose action is finished.
ActionNodeCanBePurged(data) == Decodes(data) /\ data = "done"

\* tm.ActionNodeIsStale: a decoded node, not finished, older than
\* max-staleness.
ActionNodeIsStale(data) == Decodes(data) /\ data = "running_old"

Purgeable(st, p) == {c \in st[p] : ActionNodeCanBePurged(Payload(p, c))}
Stale(st, p) == {c \in st[p] : ActionNodeIsStale(Payload(p, c))}

\* The stores of the model: nodes under the shard's action path and under
\* the action paths.
Stores ==
    {st \in [AllPath -> SUBSET Child] :
        \A p \in AllPath \ ({ShardPath} \cup Path) : st[p] = {}}

\* Whether a call of the store ends in an error: it may, when the store
\* answers some calls with an error.
StoreErr == IF storeFails THEN BOOLEAN ELSE {FALSE}

(***************************************************************************)
(* The topology server's operations (package zktopo).  Each returns the    *)
(* set of its possible outcomes: the store may fail at any call, and a     *)
(* failed operation may have deleted some of what it was to delete.        *)
(***************************************************************************)
\* A purge that leaves a marker node behind where it deleted.
ZkPurgeActionsLeavesMarker(st, p) ==
    {[err |-> FALSE,
      store |-> [st EXCEPT ![p] = IF Purgeable(st, p) = {} THEN @
                                  ELSE (@ \ Purgeable(st, p)) \cup {MaxChild}]]}

\* zkts.PurgeActions(path, canBePurged): delete every purgeable child.
ZkPurgeActions(st, p) ==
    {[err |-> FALSE, store |-> [st EXCEPT ![p] = @ \ Purgeable(st, p)]]}
    \cup {r \in {[err |-> TRUE, store |-> [st EXCEPT ![p] = @ \ D]] :
                    D \in SUBSET Purgeable(st, p)} : r.err \in StoreErr}

\* zkts.StaleActions(path, maxStaleness, isStale): the payloads of the stale
\* children, here named by their child, in name order.
ZkStaleActions(st, p) ==
    {r \in {[err |-> FALSE, data |-> SortStrings(Stale(st, p))],
            [err |-> TRUE, data |-> <<>>]} : r.err \in StoreErr}

\* zkts.PruneActionLogs(path, keepCount): sort the children, delete the
\* oldest until keepCount are left, return how many were deleted.
ZkPruneActionLogs(st, p, k) ==
    LET children == SortStrings(st[p])
        n == IF Len(children) <= k THEN 0 ELSE Len(children) - k
        Oldest(j) == {children[i] : i \in 1..j}
    IN {[err |-> FALSE, count |-> n, store |-> [st EXCEPT ![p] = @ \ Oldest(n)]]}
       \cup {r \in {[err |-> TRUE, count |-> j,
                     store |-> [st EXCEPT ![p] = @ \ Oldest(j)]] :
                        j \in 0..(IF n = 0 THEN 0 ELSE n - 1)} : r.err \in StoreErr}

(***************************************************************************)
(* The commands.                                                           *)
(***************************************************************************)
\* A counter that is overwritten instead of incremented.
errCountAddLost(n) == 1

\* sync2.AtomicInt32.Add(1)
errCountAdd(n) == n + 1

\* A goroutine that returns without wg.Done().
wgDoneMissing(n) == n

\* "defer wg.Done()": the goroutine has returned.
wgDone(n) == n - 1

\* A caller that does not wait.
wgWaitSkipped(n) == TRUE

\* wg.Wait(): the caller goes on when the counter is zero.
wgWait(n) == n = 0

\* An error of zkts.PurgeActions that the loop drops.
purgeStepFailsDropped(err) == FALSE

\* commandPurgeActions: "if err != nil { return "", err }"
purgeStepFails(err) == err

\* A comparison that lets one failure through.
batchResultOffByOne(n) == IF n > 1 THEN "error" ELSE "ok"

\* A command that takes an empty list of paths for a failure.
batchResultEmptyIsError(n) == IF n > 0 \/ paths = <<>> THEN "error" ELSE "ok"

\* "if errCount.Get() > 0 { return error }"
batchResult(n) == IF n > 0 THEN "error" ELSE "ok"

\* A purge that does not look at what the scan found.
shouldPurgeAlways(flag, n) == flag

\* A purge that does not look at the flag.
shouldPurgeIgnoresFlag(flag, n) == n > 0

\* "if *purge && len(staleActions) > 0"
shouldPurge(flag, n) == flag /\ n > 0

\* staleActions(): the stale payloads of a path, each converted to an
\* ActionNode; the first payload that does not decode fails the whole scan.
staleActions(st, p) ==
    {IF r.err \/ \E i \in 1..Len(r.data) : ~Decodes(Payload(p, r.data[i]))
        THEN [err |-> TRUE, nodes |-> <<>>]
        ELSE [err |-> FALSE, nodes |-> r.data] : r \in ZkStaleActions(st, p)}

\* Node paths joined with the shard's action path instead of the node's own.
LinesUnderShardPath(p, nodes) == [i \in 1..Len(nodes) |-> <<ShardPath, nodes[i]>>]

\* The lines a worker prints for its stale nodes.
Lines(p, nodes) == [i \in 1..Len(nodes) |-> <<p, nodes[i]>>]

\* A goroutine that reads the loop variable instead of its argument: it sees
\* the last path of the loop.
workerPathCaptured(p) == paths[Len(paths)]

\* The path a worker goroutine works on: its own argument
\* ("go func(zkActionPath string) {...}(apath)").
workerPath(p) == p

\* A getActions call that has not started, or whose caller has gone on:
\* listed are the children zconn.Children gave, todo those whose goroutine
\* has not finished, got those of todo whose goroutine has read and decoded
\* its node and has not appended it yet, nodes the slice, failed the
\* children whose zconn.Get failed with an error of the store.
gaNone ==
    [pc |-> "none", listed |-> {}, todo |-> {}, got |-> {}, nodes |-> <<>>,
     failed |-> {}]

\* No goroutine has read the slice.
NoneRead == [p \in AllPath |-> [c \in Child |-> <<>>]]

InitCommand ==
    /\ store0 = store
    /\ op = "none"
    /\ result = "idle"
    /\ paths = <<>>
    /\ purge = FALSE
    /\ keepCount = 0
    /\ idx = 1
    /\ wpc = [p \in AllPath |-> "none"]
    /\ wg = 0
    /\ errCount = 0
    /\ out = <<>>
    /\ failed = {}
    /\ purgeRan = {}
    /\ pruned = [p \in AllPath |-> -1]
    /\ again = FALSE
    /\ prevOk = FALSE
    /\ lpc = "none"
    /\ ga = [p \in AllPath |-> gaNone]
    /\ actionMap = {}
    /\ gaMu = [p \in AllPath |-> {}]
    /\ nodesRead = NoneRead
    /\ listMu = {}

\* The batch commands: the store holds nodes under the action paths, and the
\* topology server is the Zookeeper one.
Init ==
    /\ store \in Stores
    /\ store[ShardPath] = {}
    /\ zkts = TRUE
    /\ storeFails = TRUE
    /\ InitCommand

\* The batch commands, on the Zookeeper topology server or on another one.
InitBackend ==
    /\ store \in Stores
    /\ store[ShardPath] = {}
    /\ zkts \in BOOLEAN
    /\ storeFails = TRUE
    /\ InitCommand

\* A command that goes on without the Zookeeper topology server.
requiresZkSkipped(ok) == TRUE

\* "zkts, ok := wrangler.TopologyServer().(*zktopo.ZkTopologyServer)" and
\* "if !ok { return error }": the command goes on when ok.
requiresZk(ok) == ok

\* The state of a command that starts with these arguments: its flags are
\* parsed, its paths resolved (unchanged when the topology server is not the
\* Zookeeper one), and it has returned an error at once when it requires a
\* Zookeeper topology server and has none.
Start(o, ps, flag, k) ==
    /\ op' = o
    /\ result' = IF requiresZk(zkts) THEN "running" ELSE "error"
    /\ paths' = ps
    /\ purge' = flag
    /\ keepCount' = k
    /\ idx' = 1
    /\ wpc' = [p \in AllPath |-> "none"]
    /\ wg' = 0
    /\ errCount' = 0
    /\ out' = <<>>
    /\ failed' = {}
    /\ purgeRan' = {}
    /\ pruned' = [p \in AllPath |-> -1]
    /\ store0' = store
    /\ lpc' = IF o = "list" THEN "shard" ELSE "none"
    /\ ga' = [p \in AllPath |-> gaNone]
    /\ actionMap' = {}
    /\ store' = store
    /\ UNCHANGED envVars
    /\ gaMu' = [p \in AllPath |-> {}]
    /\ nodesRead' = NoneRead
    /\ listMu' = {}

\* A command is invoked: its flags are parsed and its paths resolved.
Begin(o, ps, flag, k) ==
    /\ result = "idle"
    /\ (~zkts /\ o # "list") => ps # <<>>   \* the arguments, of which there is one
    /\ Start(o, ps, flag, k)
    /\ UNCHANGED histVars

\* The operator runs the PurgeActions command that returned once more, with
\* the same arguments.
ReinvokePurgeActions ==
    /\ result \in {"ok", "error"}
    /\ op = "purge"
    /\ Start(op, paths, purge, keepCount)
    /\ again' = TRUE
    /\ prevOk' = (result = "ok")

BeginPurgeActions == \E ps \in PathSeqs : Begin("purge", ps, FALSE, 0)

BeginStaleActions ==
    \E ps \in PathSeqs, flag \in BOOLEAN : Begin("stale", ps, flag, 0)

BeginPruneActionLogs ==
    \E ps \in PathSeqs, k \in 0..MaxKeep : Begin("prune", ps, FALSE, k)

\* The command returns.
Return(r) ==
    /\ result' = r

\* commandPurgeActions, one iteration of its loop: purge the next path in the
\* caller itself, and return the error if there is one.
PurgeActionsStep ==
    /\ op = "purge" /\ result = "running"
    /\ idx <= Len(paths)
    /\ \E r \in ZkPurgeActions(store, paths[idx]) :
        /\ store' = r.store
        /\ purgeRan' = purgeRan \cup {paths[idx]}
        /\ wpc' = [wpc EXCEPT ![paths[idx]] = "done"]
        /\ failed' = IF r.err THEN failed \cup {paths[idx]} ELSE failed
        /\ IF purgeStepFails(r.err)
             THEN Return("error") /\ idx' = idx
             ELSE result' = result /\ idx' = idx + 1
    /\ UNCHANGED <<store0, op, paths, purge, keepCount, wg, errCount, out,
                   pruned, histVars, envVars, lockVars, listVars>>

\* commandPurgeActions: the loop is over, return nil.
PurgeActionsReturn ==
    /\ op = "purge" /\ result = "running"
    /\ idx > Len(paths)
    /\ Return("ok")
    /\ UNCHANGED <<store, store0, op, paths, purge, keepCount, idx, wpc, wg,
                   errCount, out, failed, purgeRan, pruned, histVars, envVars, lockVars, listVars>>

\* commandStaleActions / commandPruneActionLogs, one iteration of the loop:
\* wg.Add(1) and start the goroutine of the next path.
Spawn ==
    /\ op \in {"stale", "prune"} /\ result = "running"
    /\ idx <= Len(paths)
    /\ wg' = wg + 1
    /\ wpc' = [wpc EXCEPT ![paths[idx]] = IF op = "stale" THEN "scan" ELSE "prune"]
    /\ idx' = idx + 1
    /\ UNCHANGED <<store, store0, op, result, paths, purge, keepCount, errCount,
                   out, failed, purgeRan, pruned, histVars, envVars, lockVars, listVars>>

\* The goroutine of commandStaleActions, up to the purge: scan the path,
\* count a failure, or print the stale nodes.
StaleScan(p) ==
    /\ wpc[p] = "scan"
    /\ \E r \in staleActions(store, workerPath(p)) :
        IF r.err
          THEN /\ errCount' = errCountAdd(errCount)
               /\ failed' = failed \cup {p}
               /\ wpc' = [wpc EXCEPT ![p] = "done"]
               /\ wg' = wgDone(wg)
               /\ out' = out
          ELSE /\ out' = out \o Lines(workerPath(p), r.nodes)
               /\ IF shouldPurge(purge, Len(r.nodes))
                    THEN wpc' = [wpc EXCEPT ![p] = "purge"] /\ wg' = wg
                    ELSE wpc' = [wpc EXCEPT ![p] = "done"] /\ wg' = wgDone(wg)
               /\ UNCHANGED <<errCount, failed>>
    /\ UNCHANGED <<store, store0, op, result, paths, purge, keepCount, idx,
                   purgeRan, pruned, histVars, envVars, lockVars, listVars>>

\* The goroutine of commandStaleActions, the follow-up purge of its path.
StalePurge(p) ==
    /\ wpc[p] = "purge"
    /\ \E r \in ZkPurgeActions(store, workerPath(p)) :
        /\ store' = r.store
        /\ purgeRan' = purgeRan \cup {workerPath(p)}
        /\ IF r.err
             THEN errCount' = errCountAdd(errCount) /\ failed' = failed \cup {p}
             ELSE UNCHANGED <<errCount, failed>>
    /\ wpc' = [wpc EXCEPT ![p] = "done"]
    /\ wg' = wgDone(wg)
    /\ UNCHANGED <<store0, op, result, paths, purge, keepCount, idx, out,
                   pruned, histVars, envVars, lockVars, listVars>>

\* The goroutine of commandPruneActionLogs.
PruneWorker(p) ==
    /\ wpc[p] = "prune"
    /\ \E r \in ZkPruneActionLogs(store, workerPath(p), keepCount) :
        /\ store' = r.store
        /\ IF r.err
             THEN /\ errCount' = errCountAdd(errCount)
                  /\ failed' = failed \cup {p}
                  /\ pruned' = pruned
             ELSE /\ pruned' = [pruned EXCEPT ![workerPath(p)] = r.count]
                  /\ UNCHANGED <<errCount, failed>>
    /\ wpc' = [wpc EXCEPT ![p] = "done"]
    /\ wg' = wgDone(wg)
    /\ UNCHANGED <<store0, op, result, paths, purge, keepCount, idx, out,
                   purgeRan, histVars, envVars, lockVars, listVars>>

\* commandStaleActions / commandPruneActionLogs after the loop: wg.Wait(),
\* then the result from the failure counter.
BatchReturn ==
    /\ op \in {"stale", "prune"} /\ result = "running"
    /\ idx > Len(paths)
    /\ wgWait(wg)
    /\ Return(batchResult(errCount))
    /\ UNCHANGED <<store, store0, op, paths, purge, keepCount, idx, wpc, wg,
                   errCount, out, failed, purgeRan, pruned, histVars, envVars, lockVars, listVars>>

(***************************************************************************)
(* ListShardActions.                                                       *)
(***************************************************************************)
\* The order of node paths: path.Join(actionPath, action) as strings.
NodeLess(a, b) == a[1] < b[1] \/ (a[1] = b[1] /\ a[2] < b[2])

\* wr.CopyMapKeys followed by sort.Strings: the keys in ascending order.
RECURSIVE SortKeys(_)
SortKeys(S) ==
    IF S = {} THEN <<>>
    ELSE LET m == CHOOSE x \in S : \A y \in S \ {x} : NodeLess(x, y)
         IN <<m>> \o SortKeys(S \ {m})

\* zconn.Get(actionNodePath): the payload, ZNONODE when the node is gone,
\* or another error of the store.
ZkGet(st, p, c) ==
    {r \in {[err |-> "other", data |-> ""]} : TRUE \in StoreErr}
    \cup IF c \in st[p]
           THEN {[err |-> "none", data |-> Payload(p, c)]}
           ELSE {[err |-> "ZNONODE", data |-> ""]}

\* A goroutine that appends the data it read without looking at the decode
\* error.
fetchKeepsAnyData(r) == r.err = "none"

\* A goroutine that lets ZNONODE through and appends the empty node.
fetchKeepsMissing(r) ==
    r.err = "ZNONODE" \/ (r.err = "none" /\ Decodes(r.data))

\* The goroutine of getActions keeps the node: zconn.Get gave no error other
\* than ZNONODE, and the data decodes.
fetchKeeps(r) ==
    /\ ~(r.err # "none" /\ r.err # "ZNONODE")
    /\ Decodes(r.data)

\* getActions' wg.Wait(): every goroutine of the path has finished.
gaWait(todo) == todo = {}

\* A mutex that lets everyone in.
muLockNoWait(holders) == TRUE

\* mu.Lock(): the caller goes on when no goroutine holds the mutex.
muLock(holders) == holders = {}

\* A goroutine that reads the loop variable instead of its argument: it sees
\* the last child of the loop.
goroutineActionCaptured(p, c) ==
    CHOOSE m \in ga[p].listed : \A d \in ga[p].listed : d <= m

\* The child a goroutine of getActions works on: its own argument
\* ("go func(action string) {...}(action)").
goroutineAction(p, c) == c

\* An error of getActions that the caller drops.
getActionsErrorDropped(pc) == FALSE

\* listActionsByShard: "shardActionNodes, err := getActions(...)" and
\* "if err != nil".
getActionsFailed(pc) == pc = "err"

\* A result that takes a replica that could not be listed for a failure of
\* the call.
listResultCountsWarnings(warned) == IF warned = {} THEN "ok" ELSE "error"

\* listActionsByShard's last statement, "return nil", whatever was logged.
listResult(warned) == "ok"

BeginListShardActions == Begin("list", <<>>, FALSE, 0)

\* The caller of getActions(p) has reached the call.
GetActionsCalled(p) ==
    \/ p = ShardPath /\ lpc = "shard"
    \/ p # ShardPath /\ wpc[p] = "list"

\* getActions: zconn.Children, sort.Strings, and one goroutine started per
\* child, in name order.
GetActionsChildren(p) ==
    /\ op = "list"
    /\ GetActionsCalled(p)
    /\ ga[p].pc = "none"
    /\ \E err \in StoreErr :
        ga' = [ga EXCEPT ![p] =
                 IF err THEN [gaNone EXCEPT !.pc = "err"]
                 ELSE [pc |-> "fetch", listed |-> store[p], todo |-> store[p],
                       got |-> {}, nodes |-> <<>>, failed |-> {}]]
    /\ UNCHANGED <<store, store0, batchVars, histVars, envVars, lockVars, lpc, actionMap>>

\* The goroutine of getActions for one child: zconn.Get, decode, and append
\* to nodes under the mutex.
GetActionsFetch(p, c) ==
    /\ op = "list"
    /\ ga[p].pc = "fetch"
    /\ c \in ga[p].todo
    /\ \E r \in ZkGet(store, p, c) :
        ga' = [ga EXCEPT ![p].todo = @ \ {c},
                         ![p].nodes = IF fetchKeeps(r) THEN Append(@, c) ELSE @,
                         ![p].failed = IF r.err = "other" THEN @ \cup {c} ELSE @]
    /\ UNCHANGED <<store, store0, batchVars, histVars, envVars, lockVars, lpc,
                   actionMap>>

\* listActionsByShard: getActions on the shard's action path has returned;
\* return its error, or print its nodes in the order of the slice.
ListShardNodes ==
    /\ op = "list" /\ result = "running"
    /\ lpc = "shard"
    /\ \/ /\ getActionsFailed(ga[ShardPath].pc)
          /\ Return("error")
          /\ UNCHANGED <<out, lpc, ga>>
       \/ /\ ~getActionsFailed(ga[ShardPath].pc)
          /\ ga[ShardPath].pc \in {"fetch", "err"}
          /\ gaWait(ga[ShardPath].todo)
          /\ out' = out \o Lines(ShardPath, ga[ShardPath].nodes)
          /\ lpc' = "discover"
          /\ ga' = [ga EXCEPT ![ShardPath] = [gaNone EXCEPT !.pc = "done"]]
          /\ result' = result
    /\ UNCHANGED <<store, store0, op, paths, purge, keepCount, idx, wpc, wg,
                   errCount, failed, purgeRan, pruned, histVars, envVars, lockVars, actionMap>>

\* naming.FindAllTabletAliasesInShard: an error, or the tablets of the
\* shard, which are one of aliases.
Discover(aliases) ==
    /\ op = "list" /\ result = "running"
    /\ lpc = "discover"
    /\ \/ /\ TRUE \in StoreErr
          /\ Return("error")
          /\ UNCHANGED <<paths, lpc>>
       \/ /\ \E ts \in aliases : paths' = ts
          /\ lpc' = "tablets"
          /\ result' = result
    /\ UNCHANGED <<store, store0, op, purge, keepCount, idx, wpc, wg, errCount,
                   out, failed, purgeRan, pruned, histVars, envVars, lockVars, ga,
                   actionMap>>

\* The shard has any of the tablets, in any order.
FindAllTabletAliasesInShard == Discover(PathSeqs)

\* The shard has the three replicas, in any order.
FindScenarioReplicas == Discover(ReplicaSeqs)

\* listActionsByShard, one iteration of the loop over tabletAliases:
\* wg.Add(1) and "go f(actionPath)".
SpawnTablet ==
    /\ op = "list" /\ result = "running"
    /\ lpc = "tablets"
    /\ idx <= Len(paths)
    /\ wg' = wg + 1
    /\ wpc' = [wpc EXCEPT ![paths[idx]] = "list"]
    /\ idx' = idx + 1
    /\ UNCHANGED <<store, store0, op, result, paths, purge, keepCount, errCount,
                   out, failed, purgeRan, pruned, histVars, envVars, lockVars, listVars>>

\* f: getActions on the tablet's action path has returned; log its error,
\* or put its nodes in actionMap under the mutex.
TabletMerge(p) ==
    /\ op = "list"
    /\ wpc[p] = "list"
    /\ \/ /\ ga[p].pc = "err"
          /\ failed' = failed \cup {p}
          /\ UNCHANGED <<actionMap, ga>>
       \/ /\ ga[p].pc = "fetch"
          /\ gaWait(ga[p].todo)
          /\ actionMap' = actionMap \cup Range(Lines(p, ga[p].nodes))
          /\ ga' = [ga EXCEPT ![p] = [gaNone EXCEPT !.pc = "done"]]
          /\ failed' = failed
    /\ wpc' = [wpc EXCEPT ![p] = "done"]
    /\ wg' = wgDone(wg)
    /\ UNCHANGED <<store, store0, op, result, paths, purge, keepCount, idx,
                   errCount, out, purgeRan, pruned, histVars, envVars, lockVars, lpc>>

\* listActionsByShard after the loop: wg.Wait(), then print actionMap in
\* the order of its sorted keys, and return nil.
ListReturn ==
    /\ op = "list" /\ result = "running"
    /\ lpc = "tablets"
    /\ idx > Len(paths)
    /\ wgWait(wg)
    /\ muLock(listMu)
    /\ out' = out \o SortKeys(actionMap)
    /\ Return(listResult(failed))
    /\ UNCHANGED <<store, store0, op, paths, purge, keepCount, idx, wpc, wg,
                   errCount, failed, purgeRan, pruned, histVars, envVars, lockVars, listVars>>

\* Another actor deletes a node that a getActions call has listed and not
\* yet fetched.  (A delete before the listing is a smaller store at the
\* start; a delete after the fetch is not seen by the call.)
ExtDelete ==
    /\ \E p \in AllPath : \E c \in (ga[p].todo \ ga[p].got) \cap store[p] :
        store' = [store EXCEPT ![p] = @ \ {c}]
    /\ UNCHANGED <<store0, batchVars, histVars, envVars, lockVars, listVars>>

(***************************************************************************)
(* ListShardActions, with the goroutines taken one statement at a time:    *)
(* the store call, mu.Lock(), and the insertion that ends with             *)
(* mu.Unlock().                                                            *)
(***************************************************************************)
\* The goroutine of getActions for one child, up to the mutex: zconn.Get
\* and decode; it returns on an error.
GetActionsGet(p, c) ==
    /\ op = "list"
    /\ ga[p].pc = "fetch"
    /\ c \in ga[p].todo \ ga[p].got
    /\ \E r \in ZkGet(store, p, goroutineAction(p, c)) :
        ga' = [ga EXCEPT ![p].got = IF fetchKeeps(r) THEN @ \cup {c} ELSE @,
                         ![p].todo = IF fetchKeeps(r) THEN @ ELSE @ \ {c},
                         ![p].failed = IF r.err = "other"
                                         THEN @ \cup {goroutineAction(p, c)}
                                         ELSE @]
    /\ UNCHANGED <<store, store0, batchVars, histVars, envVars, lpc, actionMap,
                   lockVars>>

\* The goroutine of getActions for one child: mu.Lock(), and the read of
\* nodes that append starts with.
GetActionsLock(p, c) ==
    /\ op = "list"
    /\ c \in ga[p].got \ gaMu[p]
    /\ muLock(gaMu[p])
    /\ gaMu' = [gaMu EXCEPT ![p] = @ \cup {c}]
    /\ nodesRead' = [nodesRead EXCEPT ![p][c] = ga[p].nodes]
    /\ UNCHANGED <<store, store0, batchVars, histVars, envVars, listVars, listMu>>

\* The goroutine of getActions for one child: the write of
\* "nodes = append(nodes, actionNode)", mu.Unlock(), and wg.Done().
GetActionsAppend(p, c) ==
    /\ op = "list"
    /\ c \in gaMu[p]
    /\ ga' = [ga EXCEPT ![p].nodes = Append(nodesRead[p][c], goroutineAction(p, c)),
                        ![p].got = @ \ {c},
                        ![p].todo = @ \ {c}]
    /\ gaMu' = [gaMu EXCEPT ![p] = @ \ {c}]
    /\ nodesRead' = [nodesRead EXCEPT ![p][c] = <<>>]
    /\ UNCHANGED <<store, store0, batchVars, histVars, envVars, lpc, actionMap,
                   listMu>>

\* f: getActions on the tablet's action path has returned; log its error
\* and return, or go on to the mutex.
TabletGetActions(p) ==
    /\ op = "list"
    /\ wpc[p] = "list"
    /\ \/ /\ ga[p].pc = "err"
          /\ failed' = failed \cup {p}
          /\ wpc' = [wpc EXCEPT ![p] = "done"]
          /\ wg' = wgDone(wg)
       \/ /\ ga[p].pc = "fetch"
          /\ gaWait(ga[p].todo)
          /\ wpc' = [wpc EXCEPT ![p] = "lock"]
          /\ UNCHANGED <<failed, wg>>
    /\ UNCHANGED <<store, store0, op, result, paths, purge, keepCount, idx,
                   errCount, out, purgeRan, pruned, histVars, envVars, listVars,
                   lockVars>>

\* f: mu.Lock().
TabletLock(p) ==
    /\ op = "list"
    /\ wpc[p] = "lock"
    /\ muLock(listMu)
    /\ listMu' = listMu \cup {p}
    /\ wpc' = [wpc EXCEPT ![p] = "merge"]
    /\ UNCHANGED <<store, store0, op, result, paths, purge, keepCount, idx, wg,
                   errCount, out, failed, purgeRan, pruned, histVars, envVars,
                   listVars, gaMu, nodesRead>>

\* f: the loop that puts the nodes in actionMap, mu.Unlock(), and wg.Done().
TabletInsert(p) ==
    /\ op = "list"
    /\ wpc[p] = "merge"
    /\ actionMap' = actionMap \cup Range(Lines(p, ga[p].nodes))
    /\ ga' = [ga EXCEPT ![p] = [gaNone EXCEPT !.pc = "done"]]
    /\ listMu' = listMu \ {p}
    /\ wpc' = [wpc EXCEPT ![p] = "done"]
    /\ wg' = wgDone(wg)
    /\ UNCHANGED <<store, store0, op, result, paths, purge, keepCount, idx,
                   errCount, out, failed, purgeRan, pruned, histVars, envVars, lpc,
                   gaMu, nodesRead>>

Next ==
    \/ BeginPurgeActions
    \/ BeginStaleActions
    \/ BeginPruneActionLogs
    \/ ReinvokePurgeActions
    \/ PurgeActionsStep
    \/ PurgeActionsReturn
    \/ Spawn
    \/ \E p \in Path : StaleScan(p)
    \/ \E p \in Path : StalePurge(p)
    \/ \E p \in Path : PruneWorker(p)
    \/ BatchReturn

Spec == Init /\ [][Next]_vars

\* The batch commands on any topology server.
SpecBackend == InitBackend /\ [][Next]_vars

\* ListShardActions: the store holds nodes under the shard's action path and
\* under the tablets' action paths.
InitList ==
    /\ store \in Stores
    /\ zkts = TRUE
    /\ storeFails = TRUE
    /\ InitCommand

NextList ==
    \/ BeginListShardActions
    \/ \E p \in AllPath : GetActionsChildren(p)
    \/ \E p \in AllPath, c \in Child : GetActionsFetch(p, c)
    \/ ListShardNodes
    \/ FindAllTabletAliasesInShard
    \/ SpawnTablet
    \/ \E p \in Path : TabletMerge(p)
    \/ ListReturn
    \/ ExtDelete

SpecList == InitList /\ [][NextList]_vars

\* ListShardActions, one statement of a goroutine at a time.
NextLock ==
    \/ BeginListShardActions
    \/ \E p \in AllPath : GetActionsChildren(p)
    \/ \E p \in AllPath, c \in Child : GetActionsGet(p, c)
    \/ \E p \in AllPath, c \in Child : GetActionsLock(p, c)
    \/ \E p \in AllPath, c \in Child : GetActionsAppend(p, c)
    \/ ListShardNodes
    \/ FindAllTabletAliasesInShard
    \/ SpawnTablet
    \/ \E p \in Path : TabletGetActions(p)
    \/ \E p \in Path : TabletLock(p)
    \/ \E p \in Path : TabletInsert(p)
    \/ ListReturn
    \/ ExtDelete

SpecLock == InitList /\ [][NextLock]_vars

\* A step of a running command: of its caller or of one of its goroutines.
Progress ==
    \/ PurgeActionsStep
    \/ PurgeActionsReturn
    \/ Spawn
    \/ \E p \in Path : StaleScan(p)
    \/ \E p \in Path : StalePurge(p)
    \/ \E p \in Path : PruneWorker(p)
    \/ BatchReturn
    \/ \E p \in AllPath : GetActionsChildren(p)
    \/ \E p \in AllPath, c \in Child : GetActionsGet(p, c)
    \/ \E p \in AllPath, c \in Child : GetActionsLock(p, c)
    \/ \E p \in AllPath, c \in Child : GetActionsAppend(p, c)
    \/ ListShardNodes
    \/ FindAllTabletAliasesInShard
    \/ SpawnTablet
    \/ \E p \in Path : TabletGetActions(p)
    \/ \E p \in Path : TabletLock(p)
    \/ \E p \in Path : TabletInsert(p)
    \/ ListReturn

\* Every command, one statement of a goroutine at a time, with the
\* scheduler of the Go runtime and a store whose calls return: while the
\* caller or a goroutine can take a step, one of them does.
NextFair ==
    \/ BeginPurgeActions
    \/ BeginStaleActions
    \/ BeginPruneActionLogs
    \/ BeginListShardActions
    \/ ReinvokePurgeActions
    \/ ExtDelete
    \/ Progress

\* The stores in which a path holds every node or none.
InitFair ==
    /\ InitList
    /\ \A p \in AllPath : store[p] \in {{}, Child}

SpecFair == InitFair /\ [][NextFair]_vars /\ WF_vars(Progress)

\* The first node under a path whose payload decodes.
FirstAction(p) ==
    CHOOSE c \in Child :
        /\ Decodes(Payload(p, c))
        /\ \A d \in Child : Decodes(Payload(p, d)) => c <= d

\* The scenario of a shard with three replicas: one action node under the
\* shard's action path and one under each replica's; the store answers
\* every call and nobody else writes.
ScenarioStore ==
    [p \in AllPath |-> IF p \in {ShardPath} \cup Replica THEN {FirstAction(p)}
                       ELSE {}]

InitScenario ==
    /\ store = ScenarioStore
    /\ zkts = TRUE
    /\ storeFails = FALSE
    /\ InitCommand

NextScenario ==
    \/ BeginListShardActions
    \/ \E p \in AllPath : GetActionsChildren(p)
    \/ \E p \in AllPath, c \in Child : GetActionsFetch(p, c)
    \/ ListShardNodes
    \/ FindScenarioReplicas
    \/ SpawnTablet
    \/ \E p \in Replica : TabletMerge(p)
    \/ ListReturn

SpecScenario == InitScenario /\ [][NextScenario]_vars

\* Every command, on every store.
NextAll == Next \/ NextList

SpecAll == InitList /\ [][NextAll]_vars

\* Every command, on every store, with no other writer.
NextQuiet ==
    \/ Next
    \/ BeginListShardActions
    \/ \E p \in AllPath : GetActionsChildren(p)
    \/ \E p \in AllPath, c \in Child : GetActionsFetch(p, c)
    \/ ListShardNodes
    \/ FindAllTabletAliasesInShard
    \/ SpawnTablet
    \/ \E p \in Path : TabletMerge(p)
    \/ ListReturn

SpecQuiet == InitList /\ [][NextQuiet]_vars

(***************************************************************************)
(* Properties of the batch commands.  Spec has no other writer: the store  *)
(* changes only by the command's own deletes.                              *)
(***************************************************************************)
Returned == result \in {"ok", "error"}
Listed == Range(paths)

\* The children of p that a prune keeping k leaves: the k greatest names.
Newest(S, k) == {c \in S : Cardinality({d \in S : d > c}) < k}

\* The stale nodes of p were printed.
Emitted(p) == \A c \in Stale(store0, p) : <<p, c>> \in Range(out)

\* C1: when PurgeActions has returned, every path of the list whose own
\* purge did not fail has no purgeable child left, wherever the failing
\* paths stand in the list.
C1_PurgeFailureIsolation ==
    (op = "purge" /\ Returned) =>
        \A p \in Listed \ failed : Purgeable(store, p) = {}

\* C2: when StaleActions or PruneActionLogs has returned, the failure count
\* is the number of paths that failed, and every other path's effects are
\* complete: its stale nodes printed, its follow-up purge done, its old
\* entries pruned.
C2_PartialFailureIsolation ==
    (op \in {"stale", "prune"} /\ Returned) =>
        /\ errCount = Cardinality(failed)
        /\ \A p \in Listed \ failed :
            /\ op = "stale" => Emitted(p)
            /\ (op = "stale" /\ purge /\ Stale(store0, p) # {}) =>
                    Purgeable(store, p) = {}
            /\ op = "prune" => store[p] = Newest(store0[p], keepCount)

\* Two paths, one failed and one succeeded with stale nodes printed and
\* purgeable children deleted.
C2_Witness ==
    /\ op = "stale" /\ Returned /\ purge
    /\ Cardinality(failed) = 1 /\ Len(paths) = 2
    /\ \E p \in Listed \ failed :
        /\ Stale(store0, p) # {}
        /\ Purgeable(store0, p) # {}
        /\ Purgeable(store, p) = {}

\* C3: a command reports success exactly when no path's worker failed; the
\* failure counter of StaleActions and PruneActionLogs is the number of
\* failed paths, each counted once.
C3_SuccessIffNoFailure ==
    Returned =>
        /\ (result = "ok") <=> (failed = {})
        /\ failed \subseteq Listed
        /\ op \in {"stale", "prune"} =>
            /\ errCount = Cardinality(failed)
            /\ (result = "ok") <=> (errCount = 0)

\* A StaleActions call in which one path's scan succeeded and its follow-up
\* purge failed: counted once.
C3_Witness ==
    /\ op = "stale" /\ Returned /\ result = "error"
    /\ errCount = 1
    /\ \E p \in failed : p \in purgeRan /\ \E c \in Child : <<p, c>> \in Range(out)

GaReturning(p) == ga[p].pc = "fetch" /\ ga[p].todo = {}

\* C5: the lines ListShardActions prints, shard nodes and tablet nodes
\* together, are in ascending order of path, so that two calls on an
\* unchanged store print the same sequence.
C5_ListSortedByPath ==
    (op = "list" /\ result = "ok") =>
        \A i, j \in 1..Len(out) : i < j => NodeLess(out[i], out[j])

C6_StaleCase ==
    /\ op = "stale" /\ result = "ok"
    /\ \E p \in Listed :
        /\ \E c \in store0[p] : ~Decodes(Payload(p, c))
        /\ \E c \in store0[p] : <<p, c>> \in Range(out)

\* C7: a child deleted by another actor after it was listed and before it
\* was fetched is left out of the slice getActions returns; every other
\* child that was read and decodes is in it; the listing of the path does
\* not end in an error.
C7_VanishedNodeTolerated ==
    op = "list" =>
        \A p \in AllPath :
            /\ ga[p].pc = "err" => ga[p].listed = {}
            /\ GaReturning(p) =>
                LET vanished == ga[p].listed \ store[p]
                IN /\ Range(ga[p].nodes) \cap vanished = {}
                   /\ \A c \in ga[p].listed \ (vanished \cup ga[p].failed) :
                        Decodes(Payload(p, c)) => c \in Range(ga[p].nodes)

\* A listing in which one child vanished and another is returned.
C7_Witness ==
    /\ op = "list"
    /\ \E p \in AllPath :
        /\ GaReturning(p)
        /\ ga[p].listed \ store[p] # {}
        /\ ga[p].failed = {}
        /\ ga[p].nodes # <<>>

\* C8: the follow-up purge of a path runs exactly when -purge is set and the
\* scan of that path found a stale node; it leaves every other path alone;
\* a failed purge on one path leaves the other paths scanned and purged.
C8_FollowUpPurge ==
    (op = "stale" /\ Returned) =>
        \A p \in Path :
            /\ p \in Listed => wpc[p] = "done"
            /\ p \in purgeRan <=>
                 (p \in Listed /\ purge /\ \E c \in Child : <<p, c>> \in Range(out))
            /\ p \notin purgeRan => store[p] = store0[p]
            /\ store[p] \subseteq store0[p]
            /\ store0[p] \ store[p] \subseteq Purgeable(store0, p)

\* The purge of one path failed, the other path was scanned and purged.
C8_Witness ==
    /\ op = "stale" /\ Returned /\ purge
    /\ \E p, q \in purgeRan :
        /\ p # q
        /\ p \in failed
        /\ q \notin failed
        /\ Purgeable(store0, q) # {}
        /\ Purgeable(store, q) = {}

\* C9: with no other writer, a path pruned without failure keeps
\* min(C, K) children, the K greatest names, and logs C - min(C, K).
C9_PruneRetention ==
    (op = "prune" /\ Returned) =>
        \A p \in Listed \ failed :
            LET C == Cardinality(store0[p])
            IN /\ Cardinality(store[p]) = Min(C, keepCount)
               /\ store[p] = Newest(store0[p], keepCount)
               /\ pruned[p] = C - Min(C, keepCount)

\* Two paths pruned, one of them holding more children than are kept.
C9_Witness ==
    /\ op = "prune" /\ result = "ok" /\ Len(paths) = 2
    /\ keepCount = 1
    /\ \E p \in Listed : Cardinality(store0[p]) = 2 /\ pruned[p] = 1
    /\ \E p \in Listed : Cardinality(store0[p]) = 1 /\ pruned[p] = 0

\* C10 as stated: a PurgeActions call over the same paths as the call before
\* it deletes nothing, whatever that call returned.
C10_PurgeIdempotent ==
    (op = "purge" /\ again) => store = store0

\* C10, amended: after a PurgeActions call that returned success, a second
\* call over the same paths, with no write in between, deletes nothing.
C10_PurgeIdempotentAfterSuccess ==
    (op = "purge" /\ again /\ prevOk) => store = store0

\* A second PurgeActions call that has gone through both of its paths after
\* a first one that succeeded.
C10_Witness ==
    /\ op = "purge" /\ again /\ prevOk /\ Returned
    /\ Len(paths) = 2 /\ purgeRan = Listed

(***************************************************************************)
(* Properties of the commands' entry and of their effect on the store.     *)
(***************************************************************************)
Batch == {"purge", "stale", "prune"}

\* C11: a batch command whose patterns resolved to no path starts no
\* worker, calls the store neither to read nor to delete, counts and prints
\* nothing, and returns success.
C11_EmptyInputIsNoOp ==
    (op \in Batch /\ paths = <<>>) =>
        /\ result \in {"running", "ok"}
        /\ wg = 0
        /\ \A p \in AllPath : wpc[p] = "none" /\ pruned[p] = -1
        /\ purgeRan = {}
        /\ store = store0
        /\ errCount = 0 /\ failed = {}
        /\ out = <<>>

\* StaleActions with -purge over no path has returned, on a store that
\* holds stale and purgeable nodes.
C11_Witness ==
    /\ op = "stale" /\ purge /\ paths = <<>> /\ result = "ok"
    /\ \E p \in Path : Stale(store, p) # {} /\ Purgeable(store, p) # {}

\* C12: on a topology server that is not the Zookeeper one, a batch command
\* has returned an error with no worker started and no store call made for
\* any of its paths.
C12_ConfigurationErrorPrecedesWork ==
    (op \in Batch /\ ~zkts) =>
        /\ result = "error"
        /\ wg = 0 /\ idx = 1
        /\ \A p \in AllPath : wpc[p] = "none" /\ pruned[p] = -1
        /\ purgeRan = {}
        /\ store = store0
        /\ errCount = 0 /\ failed = {}
        /\ out = <<>>

\* PruneActionLogs -keep-count=0 over two paths that hold entries, without
\* the Zookeeper topology server.
C12_Witness ==
    /\ op = "prune" /\ ~zkts /\ result = "error"
    /\ keepCount = 0 /\ Len(paths) = 2
    /\ \A p \in Listed : store[p] # {}

C18_NoLostInsertion ==
    op = "list" =>
        \A p \in AllPath :
            GaReturning(p) =>
                /\ \A i, j \in 1..Len(ga[p].nodes) :
                        i # j => ga[p].nodes[i] # ga[p].nodes[j]
                /\ Range(ga[p].nodes) =
                     {c \in ga[p].listed \cap store[p] :
                        c \notin ga[p].failed /\ Decodes(Payload(p, c))}

\* getActions returns two nodes that were appended against the order of
\* their names, on a path where both goroutines waited for the mutex
\* together at some point; and one that leaves out a child it could not
\* read.
C18_Witness ==
    /\ op = "list"
    /\ \E p \in AllPath : GaReturning(p) /\ ga[p].nodes = <<2, 1>>
    /\ \E p \in AllPath :
        GaReturning(p) /\ ga[p].failed # {} /\ Len(ga[p].nodes) = 1

\* C14: no step adds a node to the store: under every path, the children
\* after a step of PurgeActions, StaleActions, PruneActionLogs or
\* ListShardActions, in any interleaving of their goroutines with each other
\* and with the deletes of another actor, are among the children before it.
C14_NeverCreatesNode ==
    [][\A p \in AllPath : store'[p] \subseteq store[p]]_vars

\* StaleActions -purge has returned after a purge that deleted the finished
\* action of one path and left its other node in place.
C14_Witness ==
    /\ op = "stale" /\ purge /\ Returned
    /\ \E p \in purgeRan : store[p] # store0[p] /\ store[p] # {}

\* C15: with no other writer, during and after ListShardActions and
\* StaleActions without -purge the store is what it was when the call
\* started, and zkts.PurgeActions was not called, whichever paths failed.
C15_ReadOnlyOperations ==
    (op = "list" \/ (op = "stale" /\ ~purge)) =>
        /\ store = store0
        /\ purgeRan = {}

\* StaleActions without -purge has returned an error for one path and has
\* printed the stale node of another path that also holds a finished action.
C15_Witness ==
    /\ op = "stale" /\ ~purge /\ result = "error"
    /\ \E p \in Listed \ failed :
        /\ \E c \in Child : <<p, c>> \in Range(out)
        /\ Purgeable(store, p) # {}

(***************************************************************************)
(* Termination.                                                            *)
(***************************************************************************)
\* C16: a command that is running returns; every goroutine that was started
\* finishes, whether or not another one failed; and when the command has
\* returned none of its goroutines is left unfinished.  No interleaving
\* stops with the caller in wg.Wait() or a goroutine in mu.Lock().
C16_Termination ==
    /\ (result = "running") ~> Returned
    /\ \A p \in Path : (wpc[p] \notin {"none", "done"}) ~> (wpc[p] = "done")
    /\ [](Returned =>
            /\ wg = 0
            /\ \A p \in AllPath : wpc[p] \in {"none", "done"} /\ ga[p].todo = {}
            /\ (op \in {"stale", "prune"} \/ (op = "list" /\ result = "ok")) =>
                 \A p \in Listed : wpc[p] = "done")

\* ListShardActions has returned after two tablet goroutines, one of which
\* failed to list its path while the other merged a node.
C16_Witness ==
    /\ op = "list" /\ result = "ok"
    /\ Len(paths) = 2
    /\ \A p \in Listed : wpc[p] = "done"
    /\ Cardinality(failed) = 1
    /\ \E p \in Listed \ failed : \E n \in actionMap : n[1] = p

(***************************************************************************)
(* Properties of the output of ListShardActions.                           *)
(***************************************************************************)
\* The nodes of the scenario: the shard's and the three replicas'.
ScenarioNodes == {<<p, FirstAction(p)>> : p \in {ShardPath} \cup Replica}

\* C17 as stated: for a shard with one shard-level action node and three
\* replicas with one action node each, ListShardActions prints five
\* distinct nodes.
C17_ScenarioFiveNodes ==
    (op = "list" /\ result = "ok") =>
        /\ Len(out) = 5
        /\ Cardinality(Range(out)) = 5

\* C17, amended: for a shard with one shard-level action node and three
\* replicas with one action node each, ListShardActions prints four
\* distinct nodes: the shard's node and each replica's.
C17_ScenarioFourNodes ==
    (op = "list" /\ result = "ok") =>
        /\ Len(out) = 1 + NumReplicas
        /\ Cardinality(Range(out)) = 1 + NumReplicas
        /\ Range(out) = ScenarioNodes

\* The call has returned after discovery gave the replicas in the order
\* 3, 1, 2 and has printed a node of the third replica.
C17_Witness ==
    /\ op = "list" /\ result = "ok"
    /\ paths = <<3, 1, 2>>
    /\ store = ScenarioStore
    /\ \E i \in 1..Len(out) : out[i][1] = 3

\* C19: a tablet whose action path could not be listed is only logged: the
\* call does not return an error for it, every goroutine whose getActions
\* returned puts all the nodes it got in actionMap, nothing leaves
\* actionMap, and when the call has returned every tablet's goroutine is
\* over and every key of actionMap has been printed.
C19_ReplicaIsolation ==
    /\ []((op = "list" /\ lpc = "tablets") => result # "error")
    /\ []((op = "list" /\ result = "ok") =>
            /\ \A p \in Listed : wpc[p] = "done"
            /\ actionMap \subseteq Range(out)
            /\ \A p \in failed : \A n \in actionMap : n[1] # p)
    /\ [][\A p \in Path :
            (op = "list" /\ wpc[p] = "list" /\ wpc'[p] = "done") =>
                IF ga[p].pc = "err"
                  THEN actionMap' = actionMap /\ failed' = failed \cup {p}
                  ELSE /\ actionMap' =
                            actionMap \cup {<<p, c>> : c \in Range(ga[p].nodes)}
                       /\ failed' = failed]_vars
    /\ [][(op = "list" /\ op' = "list" /\ lpc' = "tablets") =>
            actionMap \subseteq actionMap']_vars

\* The call has returned success although the first tablet's action path,
\* which holds nodes, could not be listed; the node of the second tablet,
\* whose goroutine finished before or after, is printed.
C19_Witness ==
    /\ op = "list" /\ result = "ok"
    /\ paths = <<1, 2>>
    /\ failed = {1} /\ store[1] # {}
    /\ \E i \in 1..Len(out) : out[i][1] = 2

\* C20: ListShardActions returns an error in two places only.  When the
\* listing of the shard's action path failed it returns the error with
\* nothing printed and never goes on to discovery; when discovery failed it
\* returns the error with the shard's nodes, printed before discovery, as
\* its whole output.  In both cases no tablet goroutine was started.
C20_HardFailures ==
    /\ []((op = "list" /\ result = "error") =>
            /\ lpc \in {"shard", "discover"}
            /\ lpc = "shard" => out = <<>>
            /\ \A i \in 1..Len(out) : out[i][1] = ShardPath
            /\ paths = <<>> /\ idx = 1 /\ wg = 0 /\ actionMap = {}
            /\ \A p \in Path : wpc[p] = "none" /\ ga[p].pc = "none")
    /\ [][(op = "list" /\ lpc = "shard" /\ ga[ShardPath].pc = "err") =>
            \/ UNCHANGED <<lpc, result, out>>
            \/ lpc' = "shard" /\ result' = "error" /\ out' = <<>>]_vars
    /\ [][(op = "list" /\ lpc = "shard" /\ lpc' = "discover") =>
            out' = Lines(ShardPath, ga[ShardPath].nodes)]_vars
    /\ [][(op = "list" /\ lpc = "discover" /\ result' = "error") =>
            out' = out /\ lpc' = lpc]_vars

\* The call has returned the error of discovery after it printed the two
\* nodes of the shard's action path.
C20_Witness ==
    /\ op = "list" /\ result = "error" /\ lpc = "discover"
    /\ Len(out) = 2

====
